---------------------------- MODULE Spec2Model ----------------------------
(***************************************************************************)
(* Model of the three-leg route search of railway-app (src/app.py).        *)
(*                                                                         *)
(* Text is modelled as a sequence of one-character strings, so that        *)
(* formatting, parsing and Python's lexicographic string order are         *)
(* computed, not assumed.  Python's None is the empty sequence and a       *)
(* present value v is <<v>>.  A call that may raise returns a record       *)
(* [raised, value].                                                        *)
(***************************************************************************)
EXTENDS Integers, Sequences, FiniteSets, TLC

VARIABLES
    TIMETABLE,  \* the three leg schedules loaded at import (app.py 34-53)
    request,    \* the request api_routes is handling: query string and clock
    response,   \* what api_routes returned for it
    finder,     \* a call of find_next_train: arguments and returned candidate
    clock       \* a chain of calls of the two clock conversions

vars == <<TIMETABLE, request, response, finder, clock>>

-----------------------------------------------------------------------------
(* Text *)

\* The characters of the model, in code-point order: '-' < '0'..'9' < ':' < 'x'.
Alphabet == <<"-", "0", "1", "2", "3", "4", "5", "6", "7", "8", "9", ":", "x">>

Digits == {"0", "1", "2", "3", "4", "5", "6", "7", "8", "9"}

\* Position of a character in code-point order (Python's ord, up to a monotone map).
Ord(c) == CHOOSE i \in 1..Len(Alphabet) : Alphabet[i] = c

DigitChar(d) == Alphabet[d + 2]

DigitVal(c) == Ord(c) - 2

\* Python's s < t on str: lexicographic by code point, a proper prefix is smaller.
RECURSIVE StrLess(_, _)
StrLess(s, t) ==
    IF t = <<>> THEN FALSE
    ELSE IF s = <<>> THEN TRUE
    ELSE IF Head(s) # Head(t) THEN Ord(Head(s)) < Ord(Head(t))
    ELSE StrLess(Tail(s), Tail(t))

\* str.split(":"): the fields between the colons (n colons give n+1 fields).
RECURSIVE Split(_)
Split(s) ==
    IF s = <<>> THEN << <<>> >>
    ELSE LET rest == Split(Tail(s)) IN
         IF Head(s) = ":" THEN << <<>> >> \o rest
         ELSE << <<Head(s)>> \o Head(rest) >> \o Tail(rest)

\* The decimal digits of a natural number, without padding.
RECURSIVE Decimal(_)
Decimal(n) ==
    IF n < 10 THEN <<DigitChar(n)>>
    ELSE Decimal(n \div 10) \o <<DigitChar(n % 10)>>

\* format(n, "02d"): at least two characters, zero-padded, the sign counted.
Format02d(n) ==
    IF n < 0 THEN <<"-">> \o Decimal(-n)
    ELSE IF n < 10 THEN <<"0">> \o Decimal(n)
    ELSE Decimal(n)

\* The value of a run of digits.
RECURSIVE DigitsVal(_)
DigitsVal(s) ==
    IF s = <<>> THEN 0
    ELSE DigitsVal(SubSeq(s, 1, Len(s) - 1)) * 10 + DigitVal(s[Len(s)])

AllDigits(s) == s # <<>> /\ \A i \in 1..Len(s) : s[i] \in Digits

\* Whether int(s) accepts s, for s over Alphabet: an optional '-', then digits.
IsIntLiteral(s) ==
    \/ AllDigits(s)
    \/ s # <<>> /\ Head(s) = "-" /\ AllDigits(Tail(s))

IntVal(s) == IF Head(s) = "-" THEN 0 - DigitsVal(Tail(s)) ELSE DigitsVal(s)

Returned(v) == [raised |-> FALSE, value |-> v]

\* A ValueError left uncaught.
ValueError == [raised |-> TRUE, value |-> 0]

-----------------------------------------------------------------------------
(* Clock conversions *)

\* The two fields taken in the wrong order: m * 60 + h.
parse_hhmm_to_minutes_swapped(hhmm) ==
    LET fields == Split(hhmm) IN
    IF Len(fields) = 2 /\ IsIntLiteral(fields[1]) /\ IsIntLiteral(fields[2])
    THEN Returned(IntVal(fields[2]) * 60 + IntVal(fields[1]))
    ELSE ValueError

\* h, m = map(int, hhmm.split(":")); return h * 60 + m
parse_hhmm_to_minutes(hhmm) ==
    LET fields == Split(hhmm) IN
    IF Len(fields) = 2 /\ IsIntLiteral(fields[1]) /\ IsIntLiteral(fields[2])
    THEN Returned(IntVal(fields[1]) * 60 + IntVal(fields[2]))
    ELSE ValueError

\* The formatting with the padding forgotten: f"{h}:{m}".
minutes_to_hhmm_unpadded(minutes) ==
    LET h == minutes \div 60
        m == minutes % 60
    IN  (IF h < 0 THEN <<"-">> \o Decimal(-h) ELSE Decimal(h)) \o <<":">> \o Decimal(m)

\* h = minutes // 60; m = minutes % 60; return f"{h:02d}:{m:02d}"
minutes_to_hhmm(minutes) ==
    LET h == minutes \div 60
        m == minutes % 60
    IN  Format02d(h) \o <<":">> \o Format02d(m)

\* A zero-padded "HH:MM" text, written digit by digit.
ClockText(h, m) ==
    <<DigitChar(h \div 10), DigitChar(h % 10), ":", DigitChar(m \div 10), DigitChar(m % 10)>>

\* Every zero-padded "HH:MM" with 0 <= H <= 23 and 0 <= M <= 59.
ZeroPaddedClocks == {ClockText(h, m) : h \in 0..23, m \in 0..59}

\* Texts outside that set: unpadded, out of range, and malformed ones.
OtherTexts ==
    { <<"7", ":", "0", "5">>, <<"0", "7", ":", "5">>, <<"2", "4", ":", "0", "0">>,
      <<"2", "3", ":", "6", "0">>, <<"0", "7", "0", "5">>, <<"0", "7", ":", "x", "5">>,
      <<"0", "7", ":", "0", "5", ":", "0", "0">>, <<"-", "1", ":", "0", "5">>, <<>> }

MinutesOfDay == 0..1439

OtherMinutes == {-61, -1, 1440, 1500, 6000}

\* How many conversions a chain of the harness applies.
MaxCalls == 2

ClockInit ==
    clock \in [calls : {<<>>}, raised : {FALSE}, start : {"hhmm"},
               arg_hhmm : ZeroPaddedClocks \cup OtherTexts, arg_minutes : {0},
               hhmm : {<<>>}, minutes : {0}]
          \cup [calls : {<<>>}, raised : {FALSE}, start : {"minutes"},
                arg_hhmm : {<<>>}, arg_minutes : MinutesOfDay \cup OtherMinutes,
                hhmm : {<<>>}, minutes : {0}]

\* The value the next call is applied to is a text: the argument of a chain
\* that starts from a text, or the result of a formatting.
HoldsText ==
    IF clock.calls = <<>> THEN clock.start = "hhmm"
    ELSE clock.calls[Len(clock.calls)] = "minutes_to_hhmm"

CallParse ==
    /\ Len(clock.calls) < MaxCalls
    /\ ~clock.raised
    /\ HoldsText
    /\ LET r == parse_hhmm_to_minutes(IF clock.calls = <<>> THEN clock.arg_hhmm
                                      ELSE clock.hhmm)
       IN  clock' = [clock EXCEPT !.calls = Append(@, "parse_hhmm_to_minutes"),
                                  !.raised = r.raised,
                                  !.minutes = r.value]
    /\ UNCHANGED <<TIMETABLE, request, response, finder>>

CallFormat ==
    /\ Len(clock.calls) < MaxCalls
    /\ ~clock.raised
    /\ ~HoldsText
    /\ clock' = [clock EXCEPT !.calls = Append(@, "minutes_to_hhmm"),
                              !.hhmm = minutes_to_hhmm(IF clock.calls = <<>>
                                                       THEN clock.arg_minutes
                                                       ELSE clock.minutes)]
    /\ UNCHANGED <<TIMETABLE, request, response, finder>>

-----------------------------------------------------------------------------
(* Next-train matcher *)

Train(departure, arrival) == [departure |-> departure, arrival |-> arrival]

None == <<>>

\* The loop of find_next_train from train i on, with the candidate and its
\* departure in minutes so far; a departure text that fails to parse raises.
RECURSIVE FindLoop(_, _, _, _, _)
FindLoop(trains, earliest_departure_min, i, candidate, candidate_dep_min) ==
    IF i > Len(trains) THEN [raised |-> FALSE, value |-> candidate]
    ELSE LET dep_min == parse_hhmm_to_minutes(trains[i].departure) IN
         IF dep_min.raised THEN [raised |-> TRUE, value |-> None]
         ELSE IF /\ dep_min.value >= earliest_departure_min
                 /\ (candidate = None \/ dep_min.value < candidate_dep_min)
              THEN FindLoop(trains, earliest_departure_min, i + 1,
                            <<trains[i]>>, dep_min.value)
         ELSE FindLoop(trains, earliest_departure_min, i + 1,
                       candidate, candidate_dep_min)

\* The scan stopping at the first train at or after the bound, as if the
\* list were sorted.
RECURSIVE FindFirstLoop(_, _, _)
FindFirstLoop(trains, earliest_departure_min, i) ==
    IF i > Len(trains) THEN [raised |-> FALSE, value |-> None]
    ELSE LET dep_min == parse_hhmm_to_minutes(trains[i].departure) IN
         IF dep_min.raised THEN [raised |-> TRUE, value |-> None]
         ELSE IF dep_min.value >= earliest_departure_min
              THEN [raised |-> FALSE, value |-> <<trains[i]>>]
         ELSE FindFirstLoop(trains, earliest_departure_min, i + 1)

find_next_train_first(trains, earliest_departure_min) ==
    FindFirstLoop(trains, earliest_departure_min, 1)

\* The scan with the comparison turned round: dep_min > candidate_dep_min.
RECURSIVE FindLatestLoop(_, _, _, _, _)
FindLatestLoop(trains, earliest_departure_min, i, candidate, candidate_dep_min) ==
    IF i > Len(trains) THEN [raised |-> FALSE, value |-> candidate]
    ELSE LET dep_min == parse_hhmm_to_minutes(trains[i].departure) IN
         IF dep_min.raised THEN [raised |-> TRUE, value |-> None]
         ELSE IF /\ dep_min.value >= earliest_departure_min
                 /\ (candidate = None \/ dep_min.value > candidate_dep_min)
              THEN FindLatestLoop(trains, earliest_departure_min, i + 1,
                                  <<trains[i]>>, dep_min.value)
         ELSE FindLatestLoop(trains, earliest_departure_min, i + 1,
                             candidate, candidate_dep_min)

find_next_train_latest(trains, earliest_departure_min) ==
    FindLatestLoop(trains, earliest_departure_min, 1, None, 0)

find_next_train(trains, earliest_departure_min) ==
    FindLoop(trains, earliest_departure_min, 1, None, 0)

-----------------------------------------------------------------------------
(* Route query *)

\* The table with no time allowed for either transfer.
TRANSFER_MINUTES_none ==
    [tameike_sanno |-> 0, shimbashi |-> 0]

\* TRANSFER_MINUTES["溜池山王"] and TRANSFER_MINUTES["新橋"]
TRANSFER_MINUTES ==
    [tameike_sanno |-> 5, shimbashi |-> 7]

\* The clamping without its lower if.
EffectiveMaxOffset_unfloored(arg) ==
    LET max_offset == IF arg = None THEN 30
                      ELSE IF IsIntLiteral(arg[1]) THEN IntVal(arg[1])
                      ELSE 3
    IN  IF max_offset > 60 THEN 60 ELSE max_offset

\* The except branch falling back to the default: max_offset = 30.
EffectiveMaxOffset_fallback30(arg) ==
    LET max_offset == IF arg = None THEN 30
                      ELSE IF IsIntLiteral(arg[1]) THEN IntVal(arg[1])
                      ELSE 30
        floored == IF max_offset < 0 THEN 0 ELSE max_offset
    IN  IF floored > 60 THEN 60 ELSE floored

\* request.args.get("max_offset", 30) through int(), ValueError caught; then
\* the two clamping ifs.  The argument is None when the parameter is omitted.
EffectiveMaxOffset(arg) ==
    LET max_offset == IF arg = None THEN 30
                      ELSE IF IsIntLiteral(arg[1]) THEN IntVal(arg[1])
                      ELSE 3
        floored == IF max_offset < 0 THEN 0 ELSE max_offset
    IN  IF floored > 60 THEN 60 ELSE floored

\* departure_base.hour * 60 + departure_base.minute
BaseMinutes(now) == now.hour * 60 + now.minute

\* latest_departure = departure_base + timedelta(minutes=max_offset), then its
\* hour * 60 + minute: datetime addition carries past midnight into the next day.
LatestMinutes(now, max_offset) ==
    LET total == now.hour * 60 + now.minute + max_offset
        hour == (total \div 60) % 24
        minute == total % 60
    IN  hour * 60 + minute

\* The window test with "and" for "or": no train is ever outside.
OutsideWindow_and(dep1_min, base_minutes, latest_minutes) ==
    dep1_min < base_minutes /\ dep1_min > latest_minutes

\* if dep1_min < base_minutes or dep1_min > latest_minutes: continue
OutsideWindow(dep1_min, base_minutes, latest_minutes) ==
    dep1_min < base_minutes \/ dep1_min > latest_minutes

\* The loop body without "if t3 is None: continue": reading t3["departure"]
\* of None raises.
RouteFor_unchecked(timetable, t1, base_minutes, latest_minutes) ==
    LET dep1 == parse_hhmm_to_minutes(t1.departure)
        arr1 == parse_hhmm_to_minutes(t1.arrival)
        t2 == find_next_train(timetable.tameike_shimbashi,
                              arr1.value + TRANSFER_MINUTES.tameike_sanno)
        dep2 == parse_hhmm_to_minutes(t2.value[1].departure)
        arr2 == parse_hhmm_to_minutes(t2.value[1].arrival)
        t3 == find_next_train(timetable.shimbashi_kamakura,
                              arr2.value + TRANSFER_MINUTES.shimbashi)
        dep3 == parse_hhmm_to_minutes(t3.value[1].departure)
        arr3 == parse_hhmm_to_minutes(t3.value[1].arrival)
    IN  IF dep1.raised THEN [raised |-> TRUE, value |-> None]
        ELSE IF OutsideWindow(dep1.value, base_minutes, latest_minutes)
             THEN [raised |-> FALSE, value |-> None]
        ELSE IF arr1.raised \/ t2.raised THEN [raised |-> TRUE, value |-> None]
        ELSE IF t2.value = None THEN [raised |-> FALSE, value |-> None]
        ELSE IF dep2.raised \/ arr2.raised \/ t3.raised
             THEN [raised |-> TRUE, value |-> None]
        ELSE IF t3.value = None THEN [raised |-> TRUE, value |-> None]
        ELSE IF dep3.raised \/ arr3.raised THEN [raised |-> TRUE, value |-> None]
        ELSE [raised |-> FALSE,
              value |-> << [departure_time |-> minutes_to_hhmm(dep1.value),
                            arrival_time |-> minutes_to_hhmm(arr3.value),
                            total_duration_min |-> arr3.value - dep1.value,
                            transfers |-> <<t1, t2.value[1], t3.value[1]>>] >>]

\* One pass of the loop body over t1: a route, nothing (continue), or a raise.
RouteFor(timetable, t1, base_minutes, latest_minutes) ==
    LET dep1 == parse_hhmm_to_minutes(t1.departure)
        arr1 == parse_hhmm_to_minutes(t1.arrival)
        t2 == find_next_train(timetable.tameike_shimbashi,
                              arr1.value + TRANSFER_MINUTES.tameike_sanno)
        dep2 == parse_hhmm_to_minutes(t2.value[1].departure)
        arr2 == parse_hhmm_to_minutes(t2.value[1].arrival)
        t3 == find_next_train(timetable.shimbashi_kamakura,
                              arr2.value + TRANSFER_MINUTES.shimbashi)
        dep3 == parse_hhmm_to_minutes(t3.value[1].departure)
        arr3 == parse_hhmm_to_minutes(t3.value[1].arrival)
    IN  IF dep1.raised THEN [raised |-> TRUE, value |-> None]
        ELSE IF OutsideWindow(dep1.value, base_minutes, latest_minutes)
             THEN [raised |-> FALSE, value |-> None]
        ELSE IF arr1.raised \/ t2.raised THEN [raised |-> TRUE, value |-> None]
        ELSE IF t2.value = None THEN [raised |-> FALSE, value |-> None]
        ELSE IF dep2.raised \/ arr2.raised \/ t3.raised
             THEN [raised |-> TRUE, value |-> None]
        ELSE IF t3.value = None THEN [raised |-> FALSE, value |-> None]
        ELSE IF dep3.raised \/ arr3.raised THEN [raised |-> TRUE, value |-> None]
        ELSE [raised |-> FALSE,
              value |-> << [departure_time |-> minutes_to_hhmm(dep1.value),
                            arrival_time |-> minutes_to_hhmm(arr3.value),
                            total_duration_min |-> arr3.value - dep1.value,
                            transfers |-> <<t1, t2.value[1], t3.value[1]>>] >>]

\* The for loop from train i of leg 1 on, with the routes appended so far.
RECURSIVE RoutesLoop(_, _, _, _, _)
RoutesLoop(timetable, base_minutes, latest_minutes, i, routes) ==
    IF i > Len(timetable.ichigaya_tameike) THEN [raised |-> FALSE, value |-> routes]
    ELSE LET one == RouteFor(timetable, timetable.ichigaya_tameike[i],
                             base_minutes, latest_minutes)
         IN  IF one.raised THEN [raised |-> TRUE, value |-> <<>>]
             ELSE RoutesLoop(timetable, base_minutes, latest_minutes, i + 1,
                             routes \o one.value)

\* Where a stable sort puts r among the already sorted routes: after every
\* route whose key is not greater.
RECURSIVE InsertByDeparture(_, _)
InsertByDeparture(sorted, r) ==
    IF sorted = <<>> THEN <<r>>
    ELSE IF StrLess(r.departure_time, Head(sorted).departure_time)
         THEN <<r>> \o sorted
    ELSE <<Head(sorted)>> \o InsertByDeparture(Tail(sorted), r)

RECURSIVE SortScan(_, _)
SortScan(routes, k) ==
    IF k = 0 THEN <<>> ELSE InsertByDeparture(SortScan(routes, k - 1), routes[k])

\* routes.sort(key=lambda r: r["departure_time"]): stable, keys compared as str.
SortByDepartureTime(routes) == SortScan(routes, Len(routes))

\* The handler: its JSON body with status 200, or status 500 when a
\* ValueError escapes.
api_routes(timetable, arg, now) ==
    LET max_offset == EffectiveMaxOffset(arg)
        base_minutes == BaseMinutes(now)
        latest_minutes == LatestMinutes(now, max_offset)
        routes == RoutesLoop(timetable, base_minutes, latest_minutes, 1, <<>>)
    IN  IF routes.raised
        THEN [status |-> 500, max_offset_minutes |-> 0, routes |-> <<>>]
        ELSE [status |-> 200, max_offset_minutes |-> max_offset,
              routes |-> SortByDepartureTime(routes.value)]

-----------------------------------------------------------------------------
(* Inputs *)

\* Every sequence over S of length at most n.
SeqsUpTo(S, n) == UNION {[1..k -> S] : k \in 0..n}

\* Every ordering of every subset of S.
Orderings(S) ==
    {s \in SeqsUpTo(S, Cardinality(S)) :
        \A i, j \in 1..Len(s) : i # j => s[i] # s[j]}

\* Leg 1: two runs leaving together at 23:05, one at 23:35, and one at 23:06
\* whose arrival text is malformed.
Leg1Trains ==
    { Train(ClockText(23, 5), ClockText(23, 10)),
      Train(ClockText(23, 5), ClockText(23, 11)),
      Train(ClockText(23, 35), ClockText(23, 40)),
      Train(ClockText(23, 6), <<"2", "3", ":", "x", "0">>) }

\* Leg 2: 23:15 is exactly 23:10 plus the transfer and a minute short of
\* 23:11 plus the transfer; 23:16 leaves later and arrives earlier (an
\* overtaking); 23:45 is exactly 23:40 plus the transfer.
Leg2Trains ==
    { Train(ClockText(23, 15), ClockText(23, 22)),
      Train(ClockText(23, 16), ClockText(23, 21)),
      Train(ClockText(23, 45), ClockText(23, 50)) }

\* Leg 3: two runs leaving together at 23:28 with different arrivals (23:28
\* is exactly 23:21 plus the transfer and a minute short of 23:22 plus the
\* transfer), and 23:57, exactly 23:50 plus the transfer.
Leg3Trains ==
    { Train(ClockText(23, 28), ClockText(23, 50)),
      Train(ClockText(23, 28), ClockText(23, 45)),
      Train(ClockText(23, 57), ClockText(23, 59)) }

\* How many trains the leg-1 timetable holds at most.
MaxLeg1 == 2

Timetables ==
    [ichigaya_tameike : SeqsUpTo(Leg1Trains, MaxLeg1),
     tameike_shimbashi : Orderings(Leg2Trains),
     shimbashi_kamakura : Orderings(Leg3Trains)]

Clock(h, m) == [hour |-> h, minute |-> m]

\* The clock readings and max_offset arguments of the route queries: 23:05
\* plus 60 minutes passes midnight.
Nows == {Clock(23, 5), Clock(23, 6)}

Args == {None, << <<"0">> >>, << <<"6", "0">> >>}

\* A morning timetable whose leg-1 departures sit on and just past the
\* offsets 0, 3, 30 and 60 from 07:00; every one of them has a full chain.
MorningTimetable ==
    [ichigaya_tameike |->
        << Train(ClockText(7, 30), ClockText(7, 40)), Train(ClockText(7, 0), ClockText(7, 10)),
           Train(ClockText(8, 1), ClockText(8, 11)), Train(ClockText(7, 3), ClockText(7, 13)),
           Train(ClockText(7, 4), ClockText(7, 14)), Train(ClockText(8, 0), ClockText(8, 10)),
           Train(ClockText(7, 31), ClockText(7, 41)), Train(ClockText(7, 1), ClockText(7, 11)) >>,
     tameike_shimbashi |-> << Train(ClockText(9, 0), ClockText(9, 10)) >>,
     shimbashi_kamakura |-> << Train(ClockText(9, 30), ClockText(10, 0)) >>]

\* The characters and the greatest length of a max_offset argument text.
ArgChars == {"-", "0", "2", "3", "5", "6", "x"}

MaxArgLen == 3

ArgTexts == {None} \cup { <<text>> : text \in SeqsUpTo(ArgChars, MaxArgLen) }

\* The trains and bounds find_next_train is called with: ties, an unpadded
\* text, a malformed departure; every bound around the departures.
FinderTrains ==
    { Train(ClockText(23, 5), ClockText(23, 10)),
      Train(ClockText(23, 5), ClockText(23, 11)),
      Train(ClockText(23, 15), ClockText(23, 20)),
      Train(<<"7", ":", "5">>, <<"7", ":", "3", "0">>),
      Train(<<"2", "3", "1", "5">>, ClockText(23, 20)) }

FinderBounds == {-1, 0, 425, 426, 1439, 1440} \cup 1380..1400

MaxTrains == 3

IdleFinder ==
    [trains |-> <<>>, earliest_departure_min |-> 0, called |-> FALSE,
     raised |-> FALSE, candidate |-> None]

IdleClock ==
    [calls |-> <<>>, raised |-> FALSE, start |-> "hhmm", arg_hhmm |-> <<>>,
     arg_minutes |-> 0, hhmm |-> <<>>, minutes |-> 0]

-----------------------------------------------------------------------------
(* Actions *)

\* GET /api/routes with the given max_offset argument, read at clock time now.
\* The handler reads nothing an earlier request wrote, so a behaviour follows
\* one request.
ApiRoutes(arg, now) ==
    /\ request = None
    /\ request' = << [max_offset |-> arg, now |-> now] >>
    /\ response' = << api_routes(TIMETABLE, arg, now) >>
    /\ UNCHANGED <<TIMETABLE, finder, clock>>

CallFindNextTrain ==
    /\ ~finder.called
    /\ LET r == find_next_train(finder.trains, finder.earliest_departure_min)
       IN  finder' = [finder EXCEPT !.called = TRUE, !.raised = r.raised,
                                    !.candidate = r.value]
    /\ UNCHANGED <<TIMETABLE, request, response, clock>>

-----------------------------------------------------------------------------
(* Specifications *)

\* Route queries over every timetable of the night sample.
Init ==
    /\ TIMETABLE \in Timetables
    /\ request = None
    /\ response = None
    /\ finder = IdleFinder
    /\ clock = IdleClock

Next == \E arg \in Args, now \in Nows : ApiRoutes(arg, now)

Spec == Init /\ [][Next]_vars

\* Route queries over every max_offset argument, on the morning timetable.
InitParams ==
    /\ TIMETABLE = MorningTimetable
    /\ request = None
    /\ response = None
    /\ finder = IdleFinder
    /\ clock = IdleClock

NextParams == \E arg \in ArgTexts : ApiRoutes(arg, Clock(7, 0))

SpecParams == InitParams /\ [][NextParams]_vars

\* Calls of find_next_train.
InitFind ==
    /\ TIMETABLE = MorningTimetable
    /\ request = None
    /\ response = None
    /\ finder \in [trains : SeqsUpTo(FinderTrains, MaxTrains),
                   earliest_departure_min : FinderBounds,
                   called : {FALSE}, raised : {FALSE}, candidate : {None}]
    /\ clock = IdleClock

NextFind == CallFindNextTrain

SpecFind == InitFind /\ [][NextFind]_vars

\* Chains of the clock conversions.
InitClock ==
    /\ TIMETABLE = MorningTimetable
    /\ request = None
    /\ response = None
    /\ finder = IdleFinder
    /\ ClockInit

NextClock == CallParse \/ CallFormat

SpecClock == InitClock /\ [][NextClock]_vars

-----------------------------------------------------------------------------
(* Properties *)

DepMin(t) == parse_hhmm_to_minutes(t.departure).value

ArrMin(t) == parse_hhmm_to_minutes(t.arrival).value

WellFormed(t) ==
    /\ ~parse_hhmm_to_minutes(t.departure).raised
    /\ ~parse_hhmm_to_minutes(t.arrival).raised

\* Every reordering of a sequence.
Reorderings(s) ==
    {[i \in 1..Len(s) |-> s[f[i]]] : f \in Permutations(1..Len(s))}

\* The positions of the finder's trains that depart at or after its bound.
FinderQualifying ==
    {i \in 1..Len(finder.trains) :
        DepMin(finder.trains[i]) >= finder.earliest_departure_min}

\* C1: find_next_train returns None exactly when no train departs at or after
\* the bound; otherwise it returns a train of the list whose departure is at
\* or after the bound and is the least such departure; and on every
\* reordering of the list it returns a train with that same departure (or
\* None alike).
C1_FindNextIsEarliest ==
    (finder.called /\ ~finder.raised) =>
        /\ finder.candidate = None <=> FinderQualifying = {}
        /\ finder.candidate # None =>
              /\ \E i \in FinderQualifying : finder.trains[i] = finder.candidate[1]
              /\ \A i \in FinderQualifying :
                    DepMin(finder.candidate[1]) <= DepMin(finder.trains[i])
        /\ \A p \in Reorderings(finder.trains) :
              LET other == find_next_train(p, finder.earliest_departure_min) IN
              /\ ~other.raised
              /\ other.value = None <=> finder.candidate = None
              /\ other.value # None =>
                    DepMin(other.value[1]) = DepMin(finder.candidate[1])

\* C1 witness: a call on an unsorted list where a later train of the list
\* departs earlier than a qualifying earlier one, and a train is returned.
C1_Witness ==
    /\ finder.called
    /\ ~finder.raised
    /\ finder.candidate # None
    /\ \E i, j \in FinderQualifying :
          i < j /\ DepMin(finder.trains[j]) < DepMin(finder.trains[i])
    /\ \E i \in 1..Len(finder.trains) : i \notin FinderQualifying

ParseThenFormat == <<"parse_hhmm_to_minutes", "minutes_to_hhmm">>

FormatThenParse == <<"minutes_to_hhmm", "parse_hhmm_to_minutes">>

\* C9: formatting the parse of a zero-padded "HH:MM" (0 <= H <= 23,
\* 0 <= M <= 59) gives the text back, and parsing the formatting of a minute
\* count in 0..1439 gives the count back; neither chain raises.
C9_ClockRoundTrip ==
    /\ (clock.calls = ParseThenFormat /\ clock.arg_hhmm \in ZeroPaddedClocks) =>
          clock.hhmm = clock.arg_hhmm
    /\ (clock.calls = FormatThenParse /\ clock.arg_minutes \in MinutesOfDay) =>
          ~clock.raised /\ clock.minutes = clock.arg_minutes
    /\ (clock.calls = <<"parse_hhmm_to_minutes">> /\ clock.arg_hhmm \in ZeroPaddedClocks) =>
          ~clock.raised

\* C9 witness: "09:05" parsed to 545 and formatted back to "09:05".
C9_Witness ==
    /\ clock.calls = ParseThenFormat
    /\ clock.arg_hhmm = <<"0", "9", ":", "0", "5">>
    /\ clock.minutes = 545
    /\ clock.hhmm = <<"0", "9", ":", "0", "5">>

\* The request handled and the body returned for it.
Req == request[1]

Resp == response[1]

Answered == response # None /\ Resp.status = 200

Leg1 == TIMETABLE.ichigaya_tameike

Leg2 == TIMETABLE.tameike_shimbashi

Leg3 == TIMETABLE.shimbashi_kamakura

\* The minute of the day of the request's clock reading.
ReqBase == Req.now.hour * 60 + Req.now.minute

\* C2: in every returned itinerary leg 2 departs no earlier than leg 1
\* arrives plus 5 minutes, and leg 3 no earlier than leg 2 arrives plus 7.
C2_TransferBuffers ==
    Answered =>
        \A k \in 1..Len(Resp.routes) :
            LET legs == Resp.routes[k].transfers IN
            /\ DepMin(legs[2]) >= ArrMin(legs[1]) + 5
            /\ DepMin(legs[3]) >= ArrMin(legs[2]) + 7

\* C2 witness: an itinerary whose two connections are exactly 5 and 7
\* minutes, from a timetable holding a leg-2 train one minute inside the
\* leg-1 buffer.
C2_Witness ==
    /\ Answered
    /\ \E k \in 1..Len(Resp.routes) :
          LET legs == Resp.routes[k].transfers IN
          /\ DepMin(legs[2]) = ArrMin(legs[1]) + 5
          /\ DepMin(legs[3]) = ArrMin(legs[2]) + 7
          /\ \E i \in 1..Len(Leg2) : DepMin(Leg2[i]) = ArrMin(legs[1]) + 4

\* C3: every returned itinerary's leg-1 departure d has
\* base <= d <= base + max_offset, with the effective max_offset.
C3_DepartureInWindow ==
    Answered =>
        \A k \in 1..Len(Resp.routes) :
            LET d == DepMin(Resp.routes[k].transfers[1]) IN
            ReqBase <= d /\ d <= ReqBase + Resp.max_offset_minutes

\* C3 witness: with max_offset 0 the window is the single minute base, the
\* train leaving at base is returned and the one a minute later is not.
C3_Witness ==
    /\ Answered
    /\ Resp.max_offset_minutes = 0
    /\ Len(Resp.routes) = 1
    /\ DepMin(Resp.routes[1].transfers[1]) = ReqBase
    /\ \E i \in 1..Len(Leg1) : DepMin(Leg1[i]) = ReqBase + 1

\* The greedy chain from a leg-1 train: the leg-2 match, then the leg-3 match.
Leg2Match(t1) ==
    find_next_train(Leg2, ArrMin(t1) + TRANSFER_MINUTES.tameike_sanno).value

Leg3Match(t1) ==
    find_next_train(Leg3, ArrMin(Leg2Match(t1)[1]) + TRANSFER_MINUTES.shimbashi).value

HasChain(t1) == Leg2Match(t1) # None /\ Leg3Match(t1) # None

\* How many returned itineraries start with leg-1 train t1, and how many
\* times the leg-1 timetable lists t1.
ItinerariesOf(t1) ==
    Cardinality({k \in 1..Len(Resp.routes) : Resp.routes[k].transfers[1] = t1})

ListingsOf(t1) == Cardinality({i \in 1..Len(Leg1) : Leg1[i] = t1})

\* C4: every leg-1 train departing within [minutes-of-now, minutes-of-now +
\* max_offset] whose leg-2 and leg-3 matches exist yields exactly one
\* itinerary (one per listing of the train), and no leg-1 train yields more.
C4_WindowYieldsOne ==
    Answered =>
        \A i \in 1..Len(Leg1) :
            LET t1 == Leg1[i] IN
            /\ ItinerariesOf(t1) <= ListingsOf(t1)
            /\ ( /\ WellFormed(t1)
                 /\ ReqBase <= DepMin(t1)
                 /\ DepMin(t1) <= ReqBase + Resp.max_offset_minutes
                 /\ HasChain(t1) ) => ItinerariesOf(t1) = ListingsOf(t1)

\* C5: the returned itineraries are in non-decreasing order of leg-1
\* departure minutes.
C5_RoutesChronological ==
    Answered =>
        \A k, l \in 1..Len(Resp.routes) :
            k < l => DepMin(Resp.routes[k].transfers[1])
                        <= DepMin(Resp.routes[l].transfers[1])

\* C5 witness: two itineraries returned in the reverse of their timetable
\* order, the later departure listed first in leg 1.
C5_Witness ==
    /\ Answered
    /\ Len(Leg1) = 2
    /\ DepMin(Leg1[1]) > DepMin(Leg1[2])
    /\ Len(Resp.routes) = 2
    /\ Resp.routes[1].transfers[1] = Leg1[2]
    /\ Resp.routes[2].transfers[1] = Leg1[1]

\* C6: a leg-1 train whose leg-2 match or leg-3 match is None starts no
\* returned itinerary, every returned itinerary holds three trains of the
\* three timetables, a well-formed timetable is answered without error, and
\* when no leg-1 train has a full chain the itinerary list is empty.
C6_NoChainNoItinerary ==
    response # None =>
        /\ (\A i \in 1..Len(Leg1) : WellFormed(Leg1[i])) => Resp.status = 200
        /\ Answered =>
              /\ \A i \in 1..Len(Leg1) :
                    (WellFormed(Leg1[i]) /\ ~HasChain(Leg1[i])) =>
                        ItinerariesOf(Leg1[i]) = 0
              /\ \A k \in 1..Len(Resp.routes) :
                    LET legs == Resp.routes[k].transfers IN
                    /\ Len(legs) = 3
                    /\ \E i \in 1..Len(Leg1) : Leg1[i] = legs[1]
                    /\ \E i \in 1..Len(Leg2) : Leg2[i] = legs[2]
                    /\ \E i \in 1..Len(Leg3) : Leg3[i] = legs[3]
              /\ (\A i \in 1..Len(Leg1) : WellFormed(Leg1[i]) /\ ~HasChain(Leg1[i]))
                    => Resp.routes = <<>>

\* C6 witness: two leg-1 trains inside the window, one with no leg-2 match
\* and one with a leg-2 match but no leg-3 match, answered with an empty list.
C6_Witness ==
    /\ Answered
    /\ Resp.routes = <<>>
    /\ \A i \in 1..Len(Leg1) :
          /\ WellFormed(Leg1[i])
          /\ ~OutsideWindow(DepMin(Leg1[i]), ReqBase,
                            LatestMinutes(Req.now, Resp.max_offset_minutes))
    /\ \E i \in 1..Len(Leg1) : Leg2Match(Leg1[i]) = None
    /\ \E i \in 1..Len(Leg1) :
          Leg2Match(Leg1[i]) # None /\ Leg3Match(Leg1[i]) = None

\* max(0, min(60, n))
Clamped(n) == IF n < 0 THEN 0 ELSE IF n > 60 THEN 60 ELSE n

\* The leg-1 departures, in minutes, of the returned itineraries.
ReturnedDepartures == {DepMin(Resp.routes[k].transfers[1]) : k \in 1..Len(Resp.routes)}

\* The leg-1 departures of the timetable within n minutes of the clock reading.
DeparturesWithin(n) ==
    {DepMin(Leg1[i]) : i \in {i \in 1..Len(Leg1) :
                                 ReqBase <= DepMin(Leg1[i]) /\ DepMin(Leg1[i]) <= ReqBase + n}}

\* C7: for an integer max_offset argument n the response echoes
\* max(0, min(60, n)), a value within [0, 60], and the itineraries are
\* those of the window of that many minutes.
C7_MaxOffsetClamped ==
    (response # None /\ Req.max_offset # None /\ IsIntLiteral(Req.max_offset[1])) =>
        /\ Resp.status = 200
        /\ Resp.max_offset_minutes = Clamped(IntVal(Req.max_offset[1]))
        /\ Resp.max_offset_minutes \in 0..60
        /\ ReturnedDepartures = DeparturesWithin(Clamped(IntVal(Req.max_offset[1])))

\* C7 witness: max_offset=-5 answered with 0 and the one itinerary leaving
\* at the clock reading.
C7_Witness ==
    /\ response # None
    /\ Req.max_offset = << <<"-", "5">> >>
    /\ Resp.max_offset_minutes = 0
    /\ Len(Resp.routes) = 1

\* C8: with max_offset omitted the effective value is 30; with a max_offset
\* that is not an integer the request is answered with status 200, the
\* effective value 3 and the itineraries of the 3-minute window.
C8_DefaultAndFallback ==
    response # None =>
        /\ Req.max_offset = None =>
              /\ Resp.status = 200
              /\ Resp.max_offset_minutes = 30
              /\ ReturnedDepartures = DeparturesWithin(30)
        /\ (Req.max_offset # None /\ ~IsIntLiteral(Req.max_offset[1])) =>
              /\ Resp.status = 200
              /\ Resp.max_offset_minutes = 3
              /\ ReturnedDepartures = DeparturesWithin(3)

\* C8 witness: max_offset=3x answered with the three itineraries leaving
\* within 3 minutes.
C8_Witness ==
    /\ response # None
    /\ Req.max_offset = << <<"3", "x">> >>
    /\ Resp.status = 200
    /\ Resp.max_offset_minutes = 3
    /\ Len(Resp.routes) = 3

\* No train of the leg that departs later than another arrives earlier.
NoOvertaking(leg) ==
    \A i, j \in 1..Len(leg) :
        DepMin(leg[i]) > DepMin(leg[j]) => ~(ArrMin(leg[i]) < ArrMin(leg[j]))

\* No train of the leg that departs later than, or together with, another
\* arrives earlier.
NoOvertakingNorTie(leg) ==
    \A i, j \in 1..Len(leg) :
        DepMin(leg[i]) >= DepMin(leg[j]) => ~(ArrMin(leg[i]) < ArrMin(leg[j]))

\* The final arrivals of the chains (t2, t3) from t1 that respect both buffers.
FeasibleArrivals(t1) ==
    {ArrMin(Leg3[j]) : j \in {j \in 1..Len(Leg3) :
        \E i \in 1..Len(Leg2) :
            /\ DepMin(Leg2[i]) >= ArrMin(t1) + 5
            /\ DepMin(Leg3[j]) >= ArrMin(Leg2[i]) + 7}}

ArrivalOptimal ==
    \A k \in 1..Len(Resp.routes) :
        LET legs == Resp.routes[k].transfers IN
        \A a \in FeasibleArrivals(legs[1]) : ArrMin(legs[3]) <= a

\* C10 as stated: without overtaking in legs 2 and 3, every itinerary's
\* final arrival is the least over the feasible chains from its leg-1 train.
C10_GreedyOptimal ==
    (Answered /\ NoOvertaking(Leg2) /\ NoOvertaking(Leg3)) => ArrivalOptimal

\* C10 amended: the same when, in legs 2 and 3, no train that departs later
\* than or together with another arrives earlier than it.
C10_GreedyOptimalNoTie ==
    (Answered /\ NoOvertakingNorTie(Leg2) /\ NoOvertakingNorTie(Leg3)) => ArrivalOptimal

\* C10 witness: an itinerary from timetables without overtaking or ties in
\* which a later feasible chain arrives later than the one returned.
C10_Witness ==
    /\ Answered
    /\ NoOvertakingNorTie(Leg2)
    /\ NoOvertakingNorTie(Leg3)
    /\ Len(Leg2) >= 2
    /\ \E k \in 1..Len(Resp.routes) :
          LET legs == Resp.routes[k].transfers IN
          \E a \in FeasibleArrivals(legs[1]) : ArrMin(legs[3]) < a

=============================================================================
